---- MODULE Spec2Model ----
(***************************************************************************)
(* Model of the ADGym meta-selector (src/metaclassifier/meta.py): the      *)
(* component encoder, the training-set builder, the selector with its      *)
(* information-leakage guard, and the comparison loop of run().            *)
(***************************************************************************)
EXTENDS Integers, Sequences, FiniteSets, TLC

\* ------------------------------------------------------------------ bounds
\* rows of a performance table of the base grid
NumRows == 2
\* test-task rows of the merged SOTA table
MaxTasks == 3
\* configuration rows handed to the encoder on its own
MaxEncRows == 3

\* parameter combinations of the harness sweep
NumParams == 2

\* largest training pool handed to the DataLoader on its own, and the epochs
\* followed
MaxPoolSize == 1030

MaxEpochs == 2

\* ------------------------------------------------------------ value domain
\* A slot value of a configuration dictionary: a Python str, a Python int or
\* None.  v is what str() prints for it.
StrV(s) == [t |-> "str", v |-> s]
IntV(s) == [t |-> "int", v |-> s]
Null == [t |-> "null", v |-> "None"]

\* str(x), meta.py line 77
Str(x) == x.v

\* The order in which LabelEncoder sorts the printed values that occur in the
\* model (ASCII order of the strings).
SortOrder == <<"1", "2", "None", "relu", "tanh">>

Rank(s) == CHOOSE n \in 1..Len(SortOrder) : SortOrder[n] = s

\* component slots, in the key order of the configuration dictionaries
Keys == <<"act", "depth">>

SlotValues(k) ==
    IF k = "act" THEN {StrV("relu"), StrV("tanh"), StrV("None"), Null}
    ELSE {IntV("1"), StrV("1"), StrV("2"), Null}

Configs == {c \in [{"act", "depth"} -> SlotValues("act") \cup SlotValues("depth")] :
              c["act"] \in SlotValues("act") /\ c["depth"] \in SlotValues("depth")}

\* ------------------------------------------------------------------ helpers
Range(s) == {s[n] : n \in 1..Len(s)}

RECURSIVE SeqsUpTo(_, _)
SeqsUpTo(S, n) ==
    IF n = 0 THEN {<<>>}
    ELSE LET shorter == SeqsUpTo(S, n - 1)
         IN shorter \cup {Append(s, x) : s \in {q \in shorter : Len(q) = n - 1}, x \in S}

\* --------------------------------------------------------- component encoder
\* options of line 77: the printed non-None values of slot k, as a set
\* (set(options)) and the number of them (len(options)).
OptionSet(rows, k) == {Str(rows[n][k]) : n \in {m \in 1..Len(rows) : rows[m][k] # Null}}

OptionCount(rows, k) == Cardinality({m \in 1..Len(rows) : rows[m][k] # Null})

\* line 79 without its second test: a slot that is None everywhere is kept
DropKey_unique_only(rows, k) == Cardinality(OptionSet(rows, k)) = 1

\* line 79: the slot is skipped
DropKey(rows, k) == Cardinality(OptionSet(rows, k)) = 1 \/ OptionCount(rows, k) = 0

\* lines 76-82
KeysDiff(rows) == SelectSeq(Keys, LAMBDA k : ~DropKey(rows, k))

\* line 90: None becomes the string 'None'
ReplaceNone(x) == IF x = Null THEN StrV("None") ELSE x

\* the column of slot k after line 90
Column(rows, k) == [n \in 1..Len(rows) |-> ReplaceNone(rows[n][k])]

\* LabelEncoder refuses a column that mixes strings and numbers
MixedColumn(col) == Cardinality({col[n].t : n \in 1..Len(col)}) > 1

\* an encoding by the place of the value in one vocabulary shared by all
\* columns, in place of the per-column classes of line 95
LabelEncode_shared_vocabulary(col) == [n \in 1..Len(col) |-> Rank(col[n].v) - 1]

\* LabelEncoder().fit_transform, line 95: the code of an entry is the number
\* of distinct values of the column sorted before it.
LabelEncode(col) ==
    [n \in 1..Len(col) |->
        Cardinality({Rank(col[m].v) : m \in 1..Len(col)} \cap (1..(Rank(col[n].v) - 1)))]

\* components_process, lines 68-97.  err names the exception it raises.
components_process(rows) ==
    IF Len(rows) = 0
    THEN [err |-> "KeyError", keys |-> <<>>, index |-> <<>>]
    ELSE LET kd == KeysDiff(rows)
         IN IF \E n \in 1..Len(kd) : MixedColumn(Column(rows, kd[n]))
            THEN [err |-> "TypeError", keys |-> kd, index |-> <<>>]
            ELSE [err |-> "none",
                  keys |-> kd,
                  index |-> [r \in 1..Len(rows) |->
                               [n \in 1..Len(kd) |-> LabelEncode(Column(rows, kd[n]))[r]]]]

\* ------------------------------------------------------- performance tables
\* dataset columns, in the column order of the tables
DatasetSeq == <<"A", "B">>

Datasets == Range(DatasetSeq)

DsIdx(d) == CHOOSE n \in 1..Len(DatasetSeq) : DatasetSeq[n] = d

\* the metrics of run(), line 295
MetricSeq == <<"AUCROC", "AUCPR">>

\* candidate labeled-anomaly counts of the training-set builder, line 108
CandidateCounts == <<5, 10, 25, 50>>

Counts == Range(CandidateCounts)

\* the missing marker of a cell (NaN), outside the range of the metric values
NaN == -999

isnull(x) == x = NaN

\* The value of a present cell.  The tables of the model hold pairwise distinct
\* values, so that a value tells the table, row and column it was read from.
Val(metric, la, r, d) ==
    (IF metric = "AUCPR" THEN 10000 ELSE 0) + la * 100 + r * 10 + DsIdx(d)

\* the configuration grid the harness evaluated; "depth" is the same everywhere
GridRow(r) ==
    [act |-> IF r % 2 = 1 THEN StrV("relu") ELSE StrV("tanh"), depth |-> IntV("1")]

\* A performance table result-<metric>-test-<la>-...csv: the configuration
\* labels of its rows (column 'Unnamed: 0'), its dataset columns and its cells.
\* shape: "full" the grid; "short"/"long" one row fewer/more; "reversed" the
\* grid in reverse order; nocol: a dataset column the file does not have.
\* present: the evaluated cells of the grid rows (a row beyond the grid is
\* evaluated everywhere).
TableRows(shape) ==
    LET n == IF shape = "short" THEN NumRows - 1
             ELSE IF shape = "long" THEN NumRows + 1 ELSE NumRows
    IN [r \in 1..n |-> IF shape = "reversed" THEN GridRow(n + 1 - r) ELSE GridRow(r)]

MkTable(metric, la, shape, nocol, present) ==
    LET rows == TableRows(shape)
    IN [rows |-> rows,
        cols |-> Datasets \ nocol,
        val |-> [r \in 1..Len(rows) |->
                   [d \in Datasets |->
                      IF r > NumRows \/ <<r, d>> \in present
                      THEN Val(metric, la, r, d) ELSE NaN]]]

\* pd.read_csv of the test table of (metric, la), lines 109, 193, 209, 268, 318
ReadTable(T, metric, la) == T[<<metric, la>>]

\* ------------------------------------------------------ training-set builder
\* result.drop([test_dataset], axis=1), lines 114 and 214; the caller raises
\* KeyError when the column is not there.
DropColumn(tbl, d) == [tbl EXCEPT !.cols = @ \ {d}]

\* the dataset columns of a table, in order (columns 1.. of the data frame)
DataColumns(tbl) == SelectSeq(DatasetSeq, LAMBDA c : c \in tbl.cols)

RECURSIVE Flatten(_)
Flatten(ss) == IF ss = <<>> THEN <<>> ELSE Head(ss) \o Flatten(Tail(ss))

\* one training example, lines 129-132 (the meta-feature vector is the one
\* stored for (ds, la))
Example(ds, la, comp, perf) == [ds |-> ds, la |-> la, comp |-> comp, perf |-> perf]

\* CountExamples with the test of line 122 lost: a missing cell becomes an
\* example with performance 0
CountExamples_nan_as_zero(res, index, d, la) ==
    LET cs == SelectSeq(DataColumns(res), LAMBDA c : c # d)
    IN Flatten([r \in 1..Len(res.rows) |->
                  [n \in 1..Len(cs) |->
                     Example(cs[n], la, index[r],
                             IF isnull(res.val[r][cs[n]]) THEN 0 ELSE res.val[r][cs[n]])]])

\* lines 120-132 for one count: rows outermost, columns innermost
CountExamples(res, index, d, la) ==
    LET cs == DataColumns(res)
        rowEx(r) ==
            LET kept == SelectSeq(cs, LAMBDA c : ~isnull(res.val[r][c]) /\ c # d)
            IN [n \in 1..Len(kept) |-> Example(kept[n], la, index[r], res.val[r][kept[n]])]
    IN Flatten([r \in 1..Len(res.rows) |-> rowEx(r)])

\* lines 228-237 of the end-to-end builder: columns outermost, rows innermost
CountExamplesEnd2End(res, index, la) ==
    LET cs == DataColumns(res)
        colEx(c) ==
            LET kept == SelectSeq([r \in 1..Len(res.rows) |-> r],
                                  LAMBDA r : ~isnull(res.val[r][c]))
            IN [n \in 1..Len(kept) |-> Example(c, la, index[kept[n]], res.val[kept[n]][c])]
    IN Flatten([n \in 1..Len(cs) |-> colEx(cs[n])])

\* the state of a meta object (self) after fitting
MetaObj(err, metric, d, index, pool, npc) ==
    [bound |-> TRUE, err |-> err, metric |-> metric, test_dataset |-> d, test_la |-> 0,
     components_df_index |-> index, pool |-> pool, n_per_col |-> npc]

\* clf before its first assignment in run()
NoClf ==
    [bound |-> FALSE, err |-> "none", metric |-> "", test_dataset |-> "", test_la |-> 0,
     components_df_index |-> <<>>, pool |-> <<>>, n_per_col |-> <<>>]

Max(S) == CHOOSE x \in S : \A y \in S : y <= x

\* line 160: per slot, 1 + the largest code among the pooled examples
NPerColOfPool(pool) ==
    [n \in 1..Len(pool[1].comp) |-> Max({pool[m].comp[n] : m \in 1..Len(pool)}) + 1]

\* lines 242-243: per slot, 1 + the largest code of the encoded table
NPerColOfIndex(index) ==
    [n \in 1..Len(index[1]) |-> Max({index[m][n] : m \in 1..Len(index)}) + 1]

\* FitLoop with lines 113-115 and the column test of line 122 lost: the target
\* column stays in the tables the examples are taken from
RECURSIVE FitLoop_keep_target(_, _, _, _, _, _)
FitLoop_keep_target(T, metric, d, k, index, pool) ==
    IF k > Len(CandidateCounts)
    THEN [err |-> "none", index |-> index, pool |-> pool]
    ELSE LET la == CandidateCounts[k]
             result == ReadTable(T, metric, la)
             enc == components_process(result.rows)
         IN IF enc.err # "none"
            THEN [err |-> enc.err, index |-> index, pool |-> pool]
            ELSE FitLoop_keep_target(T, metric, d, k + 1, enc.index,
                                     pool \o CountExamples(result, enc.index, "", la))

\* The loop of lines 108-132 from position k of the candidate list on: index is
\* components_df_index as the counts before k left it, pool the examples so far.
RECURSIVE FitLoop(_, _, _, _, _, _)
FitLoop(T, metric, d, k, index, pool) ==
    IF k > Len(CandidateCounts)
    THEN [err |-> "none", index |-> index, pool |-> pool]
    ELSE LET la == CandidateCounts[k]
             result == ReadTable(T, metric, la)
         IN IF d \notin result.cols
            THEN [err |-> "KeyError", index |-> index, pool |-> pool]
            ELSE LET res == DropColumn(result, d)
                     enc == components_process(res.rows)
                 IN IF d \in res.cols
                    THEN [err |-> "AssertionError", index |-> index, pool |-> pool]
                    ELSE IF enc.err # "none"
                    THEN [err |-> enc.err, index |-> index, pool |-> pool]
                    ELSE FitLoop(T, metric, d, k + 1, enc.index,
                                 pool \o CountExamples(res, enc.index, d, la))

\* lines 134-165, given what the loop left.  np.stack refuses an empty list and
\* arrays of different lengths (lines 136-137); with a single example
\* las.squeeze() has no dimension left and TensorDataset refuses it (lines
\* 151-156).
FitPool(metric, d, lerr, index, pool) ==
    IF lerr # "none" THEN MetaObj(lerr, metric, d, index, pool, <<>>)
    ELSE IF Len(pool) = 0 THEN MetaObj("ValueError", metric, d, index, pool, <<>>)
    ELSE IF \E m \in 1..Len(pool) : Len(pool[m].comp) # Len(pool[1].comp)
         THEN MetaObj("ValueError", metric, d, index, pool, <<>>)
    ELSE IF Len(pool) = 1 THEN MetaObj("IndexError", metric, d, index, pool, <<>>)
    ELSE MetaObj("none", metric, d, index, pool, NPerColOfPool(pool))

\* meta_fit, lines 102-167
meta_fit(T, metric, d) ==
    LET l == FitLoop(T, metric, d, 1, <<>>, <<>>)
    IN FitPool(metric, d, l.err, l.index, l.pool)

\* meta_fit_end2end with the return of line 250 after the loop instead of
\* inside it: all four counts are processed, as they are in meta_fit
meta_fit_end2end_all_counts(T, metric, d) == meta_fit(T, metric, d)

\* meta_fit_end2end with lines 213-215 lost: the target column stays in
meta_fit_end2end_keep_target(T, metric, d) ==
    LET la == CandidateCounts[1]
        result == ReadTable(T, metric, la)
        enc == components_process(result.rows)
    IN IF enc.err # "none" THEN MetaObj(enc.err, metric, d, <<>>, <<>>, <<>>)
       ELSE MetaObj("none", metric, d, enc.index,
                    CountExamplesEnd2End(result, enc.index, la), NPerColOfIndex(enc.index))

\* meta_fit_end2end, lines 203-250: the return of line 250 is inside the loop
\* over the counts, so only the first count is processed.
meta_fit_end2end(T, metric, d) ==
    LET la == CandidateCounts[1]
        result == ReadTable(T, metric, la)
    IN IF d \notin result.cols THEN MetaObj("KeyError", metric, d, <<>>, <<>>, <<>>)
       ELSE LET res == DropColumn(result, d)
                enc == components_process(res.rows)
            IN IF d \in res.cols THEN MetaObj("AssertionError", metric, d, <<>>, <<>>, <<>>)
               ELSE IF enc.err # "none" THEN MetaObj(enc.err, metric, d, <<>>, <<>>, <<>>)
               ELSE MetaObj("none", metric, d, enc.index,
                            CountExamplesEnd2End(res, enc.index, la),
                            NPerColOfIndex(enc.index))

\* ------------------------------------------------------------------ selector
\* every order torch.argsort can give n predictions (1-based row positions)
Rankings(n) ==
    {s \in [1..n -> 1..n] : \A a, b \in 1..n : a # b => s[a] # s[b]}

\* The walk of lines 196-199 / 271-274 from position k of the ranking on; last
\* is pred_performance and sel the loop variable as the steps before k left
\* them.  result.loc raises KeyError for a row label or a column that the table
\* does not have.
RECURSIVE Walk(_, _, _, _, _, _)
Walk(ranking, result, d, k, last, sel) ==
    IF k > Len(ranking) THEN [err |-> "none", ret |-> last, sel |-> sel]
    ELSE IF d \notin result.cols \/ ranking[k] > Len(result.rows)
         THEN [err |-> "KeyError", ret |-> last, sel |-> ranking[k]]
    ELSE LET pred_performance == result.val[ranking[k]][d]
         IN IF ~isnull(pred_performance)
            THEN [err |-> "none", ret |-> pred_performance, sel |-> ranking[k]]
            ELSE Walk(ranking, result, d, k + 1, pred_performance, ranking[k])

\* an embedding of size n_per_col[c] is indexed with the codes of column c
EmbeddingInRange(index, npc) ==
    \A r \in 1..Len(index) : \A c \in 1..Len(index[r]) : c <= Len(npc) /\ index[r][c] < npc[c]

\* meta_predict, lines 169-201, for the ranking the predictor gives.  With one
\* configuration row la_test.squeeze() has no dimension left and unsqueeze(1)
\* raises (lines 183, 189).
meta_predict(T, self, ranking) ==
    IF Len(self.components_df_index) = 1 THEN [err |-> "IndexError", ret |-> NaN, sel |-> 0]
    ELSE IF ~EmbeddingInRange(self.components_df_index, self.n_per_col)
         THEN [err |-> "IndexError", ret |-> NaN, sel |-> 0]
    ELSE Walk(ranking, ReadTable(T, self.metric, self.test_la), self.test_dataset, 1, NaN, 0)

\* meta_predict_end2end, lines 252-276.  With one configuration row
\* pred.squeeze() has no dimension left and cannot be iterated (line 271).
meta_predict_end2end(T, self, ranking) ==
    IF Len(self.components_df_index) = 1 THEN [err |-> "TypeError", ret |-> NaN, sel |-> 0]
    ELSE IF ~EmbeddingInRange(self.components_df_index, self.n_per_col)
         THEN [err |-> "IndexError", ret |-> NaN, sel |-> 0]
    ELSE Walk(ranking, ReadTable(T, self.metric, self.test_la), self.test_dataset, 1, NaN, 0)

\* ---------------------------------------------------------------- variables
VARIABLES
    enc_result,                    \* the table handed to the encoder on its own
    enc_out,                       \* what components_process returned for it
    tables,                        \* the performance tables on disk, by (metric, la)
    mode,                          \* the mode argument of run()
    result_SOTA,                   \* the test tasks (dataset, la) of the SOTA table
    metric,                        \* position of the metric loop, line 295
    i,                             \* row of the comparison loop, line 307
    pc,                            \* position inside the loop body
    clf,                           \* the fitted meta object run() holds
    test_dataset_previous,         \* line 387
    meta_classifier_performance,   \* line 305
    error,                         \* the exception caught at line 374 for row i
    call,                          \* the selector call made for row i
    saved,                         \* the comparison file written last, line 381/383
    err,                           \* the exception that ended run()
    tables_other,                  \* the tables of a second execution on the same task
    clf_other,                     \* the meta object of the second execution
    call_other,                    \* the selector call of the second execution
    experiment_params,             \* the parameter combinations of the sweep, by their la
    df,                            \* the four result tables of RunPipeline.run
    csv,                           \* the four result files as written last
    sweep_i,                       \* row of the sweep (test_SOTA.py line 211)
    model_idx,                     \* position in model_dict.keys() (line 231)
    sweep_pc,                      \* position inside RunPipeline.run
    fault,                         \* what raised inside the last model_fit
    fit_out,                       \* what the last model_fit returned
    pool_size,                     \* examples of the TensorDataset, meta.py line 155
    epoch,                         \* passes over train_loader made so far
    train_loader                   \* the mini-batches of the last pass

encVars == <<enc_result, enc_out>>

inputVars == <<tables, mode, result_SOTA>>

runVars == <<metric, i, pc, clf, test_dataset_previous, meta_classifier_performance,
             error, call, saved, err>>

pairVars == <<tables_other, clf_other, call_other>>

loaderVars == <<pool_size, epoch, train_loader>>

sweepVars == <<experiment_params, df, csv, sweep_i, model_idx, sweep_pc, fault, fit_out>>

vars == <<enc_result, enc_out, tables, mode, result_SOTA, metric, i, pc, clf,
          test_dataset_previous, meta_classifier_performance, error, call, saved, err,
          tables_other, clf_other, call_other,
          experiment_params, df, csv, sweep_i, model_idx, sweep_pc, fault, fit_out,
          pool_size, epoch, train_loader>>

Pending == [err |-> "pending", keys |-> <<>>, index |-> <<>>]

\* no comparison file written yet
NoFile == [metric |-> "", Meta |-> <<>>]

\* no selector call made (yet) for the row
NoCall == [made |-> FALSE, self |-> NoClf, ranking |-> <<>>, err |-> "none", ret |-> NaN, sel |-> 0]

\* ------------------------------------------------------------- the inputs
Modes == {"two-stage", "end-to-end", "one-stage"}

Implemented == {"two-stage", "end-to-end"}

\* labeled-anomaly counts of the test tasks
TestCounts == {5, 50}

Tasks == [ds : Datasets, la : TestCounts]

GridCells == (1..NumRows) \X Datasets

\* how the table of one count may differ from the tables of the other counts
Deviations ==
    {[shape |-> s, nocol |-> {}] : s \in {"short", "long", "reversed"}}
        \cup {[shape |-> "full", nocol |-> {d}] : d \in Datasets}

Regular == [shape |-> "full", nocol |-> {}]

\* the tables of both metrics and all counts: the grid with the cells of
\* present evaluated, except that the table of count odd deviates by dev
MkTables(present, odd, dev) ==
    [k \in Range(MetricSeq) \X Counts |->
        LET v == IF k[2] = odd THEN dev ELSE Regular
        IN MkTable(k[1], k[2], v.shape, v.nocol, present)]

TableFamily ==
    {MkTables(present, 0, Regular) : present \in SUBSET GridCells}
        \cup {MkTables(present, odd, dev) :
                present \in SUBSET GridCells, odd \in Counts, dev \in Deviations}

\* The smaller family of the comparison loop: nothing evaluated, or on each
\* dataset one configuration of its own; a middle or the last count deviates.
Diagonal == {<<n, DatasetSeq[n]>> : n \in 1..Len(DatasetSeq)}

TableFamilyRun ==
    {MkTables(present, 0, Regular) : present \in {{}, Diagonal}}
        \cup {MkTables(present, odd, dev) :
                present \in {{}, Diagonal}, odd \in {10, 50}, dev \in Deviations}

\* ------------------------------------------------------- the comparison loop
Row == result_SOTA[i + 1]

Metric == MetricSeq[metric]

InitLoop ==
    /\ enc_result = <<>>
    /\ enc_out = Pending
    /\ metric = 1
    /\ i = 0
    /\ pc = "baseline"
    /\ clf = NoClf
    /\ test_dataset_previous = "unbound"
    /\ meta_classifier_performance = [n \in 1..Len(result_SOTA) |-> 0]
    /\ error = "none"
    /\ call = NoCall
    /\ saved = NoFile
    /\ err = "none"

\* no second execution
NoPair ==
    /\ tables_other = tables
    /\ clf_other = NoClf
    /\ call_other = NoCall

\* model_fit not called (yet)
NoFit == [raised |-> FALSE, time_fit |-> "", time_inference |-> "", aucroc |-> "", aucpr |-> ""]

\* no DataLoader on its own
NoLoader ==
    /\ pool_size = 0
    /\ epoch = 0
    /\ train_loader = <<>>

\* no harness sweep
NoSweep ==
    /\ experiment_params = <<>>
    /\ df = <<>>
    /\ csv = <<>>
    /\ sweep_i = 0
    /\ model_idx = 0
    /\ sweep_pc = "done"
    /\ fault = "none"
    /\ fit_out = NoFit

Init ==
    /\ tables \in TableFamilyRun
    /\ mode \in Modes
    /\ result_SOTA \in SeqsUpTo(Tasks, MaxTasks) \ {<<>>}
    /\ InitLoop
    /\ NoPair
    /\ NoSweep
    /\ NoLoader

\* one test task, any candidate count, tables of the whole family
InitMeta ==
    /\ tables \in TableFamily
    /\ mode \in Modes
    /\ result_SOTA \in {<<[ds |-> d, la |-> la]>> : d \in Datasets, la \in Counts}
    /\ InitLoop
    /\ NoPair
    /\ NoSweep
    /\ NoLoader

\* lines 309-342: the baselines read the target column of the target-count
\* table; np.max(result.loc[:, test_dataset]) raises KeyError outside any try
\* when the table has no such column.
Baselines ==
    /\ pc = "baseline"
    /\ IF Row.ds \in ReadTable(tables, Metric, Row.la).cols
       THEN pc' = "try" /\ err' = err
       ELSE pc' = "aborted" /\ err' = "KeyError"
    /\ error' = "none"
    /\ call' = NoCall
    /\ UNCHANGED <<loaderVars, sweepVars, encVars, inputVars, pairVars, metric, i, clf, test_dataset_previous,
                   meta_classifier_performance, saved>>

\* lines 356 and 364
NeedFit == i = 0 \/ Row.ds # test_dataset_previous

\* run_meta.meta_fit() or run_meta.meta_fit_end2end(), lines 345-357, 365
FitOf(T, md, mt, d) ==
    IF md = "two-stage" THEN meta_fit(T, mt, d) ELSE meta_fit_end2end(T, mt, d)

\* the except clause without its sentinel: the value of the row is left as is
Caught_no_sentinel(e) ==
    /\ meta_classifier_performance' = meta_classifier_performance
    /\ error' = e
    /\ pc' = "save"

\* lines 374-376
Caught(e) ==
    /\ meta_classifier_performance' = [meta_classifier_performance EXCEPT ![i + 1] = -1]
    /\ error' = e
    /\ pc' = "save"

\* lines 356-357 / 364-365: the classifier is fitted for the row's dataset
MetaFit ==
    /\ pc = "try"
    /\ mode \in Implemented
    /\ NeedFit
    /\ \E run_meta \in {FitOf(tables, mode, Metric, Row.ds)} :
          IF run_meta.err = "none"
          THEN /\ clf' = run_meta
               /\ pc' = "predict"
               /\ UNCHANGED <<meta_classifier_performance, error>>
          ELSE /\ Caught(run_meta.err)
               /\ clf' = clf
    /\ UNCHANGED <<loaderVars, sweepVars, encVars, inputVars, pairVars, metric, i, test_dataset_previous, call, saved, err>>

\* clf.meta_predict() or clf.meta_predict_end2end() for a ranking
PredictOf(T, md, self, ranking) ==
    IF md = "two-stage" THEN meta_predict(T, self, ranking)
    ELSE meta_predict_end2end(T, self, ranking)

\* lines 359-360 / 367-368 and 373: clf is the object fitted last; without one
\* the name is unbound.  The predictor is free in the ranking it gives.
MetaPredict ==
    /\ mode \in Implemented
    /\ pc = "predict" \/ (pc = "try" /\ ~NeedFit)
    /\ IF ~clf.bound
       THEN /\ Caught("UnboundLocalError")
            /\ UNCHANGED <<clf, call>>
       ELSE \E self \in {[clf EXCEPT !.test_la = Row.la]} :
            \E ranking \in Rankings(Len(self.components_df_index)) :
            \E r \in {PredictOf(tables, mode, self, ranking)} :
                 /\ clf' = self
                 /\ call' = [made |-> TRUE, self |-> self, ranking |-> ranking,
                             err |-> r.err, ret |-> r.ret, sel |-> r.sel]
                 /\ IF r.err = "none"
                    THEN /\ meta_classifier_performance' =
                              [meta_classifier_performance EXCEPT ![i + 1] = r.ret]
                         /\ pc' = "save"
                         /\ error' = error
                    ELSE Caught(r.err)
    /\ UNCHANGED <<loaderVars, sweepVars, encVars, inputVars, pairVars, metric, i, test_dataset_previous, saved, err>>

\* lines 370-371 and 374-376: the NotImplementedError of the try block is caught
ModeNotImplemented ==
    /\ pc = "try"
    /\ mode \notin Implemented
    /\ Caught("NotImplementedError")
    /\ UNCHANGED <<loaderVars, sweepVars, encVars, inputVars, pairVars, metric, i, clf, test_dataset_previous, call, saved, err>>

\* Save with the raise of line 385 lost: an unknown mode writes nothing and
\* the loop goes on
Save_no_raise ==
    /\ pc = "save"
    /\ saved' = IF mode \in Implemented
                THEN [metric |-> Metric, Meta |-> meta_classifier_performance] ELSE saved
    /\ test_dataset_previous' = Row.ds
    /\ err' = err
    /\ IF i + 1 < Len(result_SOTA)
       THEN /\ i' = i + 1
            /\ pc' = "baseline"
            /\ UNCHANGED <<metric, meta_classifier_performance>>
       ELSE IF metric < Len(MetricSeq)
       THEN /\ metric' = metric + 1
            /\ i' = 0
            /\ pc' = "baseline"
            /\ meta_classifier_performance' = [n \in 1..Len(result_SOTA) |-> 0]
       ELSE /\ pc' = "done"
            /\ UNCHANGED <<metric, i, meta_classifier_performance>>
    /\ UNCHANGED <<loaderVars, sweepVars, encVars, inputVars, pairVars, clf, error, call>>

\* lines 378-388, and the loop headers of lines 295-307 for what comes next
Save ==
    /\ pc = "save"
    /\ IF mode \in Implemented
       THEN /\ saved' = [metric |-> Metric, Meta |-> meta_classifier_performance]
            /\ test_dataset_previous' = Row.ds
            /\ err' = err
            /\ IF i + 1 < Len(result_SOTA)
               THEN /\ i' = i + 1
                    /\ pc' = "baseline"
                    /\ UNCHANGED <<metric, meta_classifier_performance>>
               ELSE IF metric < Len(MetricSeq)
               THEN /\ metric' = metric + 1
                    /\ i' = 0
                    /\ pc' = "baseline"
                    /\ meta_classifier_performance' = [n \in 1..Len(result_SOTA) |-> 0]
               ELSE /\ pc' = "done"
                    /\ UNCHANGED <<metric, i, meta_classifier_performance>>
       ELSE /\ pc' = "aborted"
            /\ err' = "NotImplementedError"
            /\ UNCHANGED <<saved, test_dataset_previous, metric, i, meta_classifier_performance>>
    /\ UNCHANGED <<loaderVars, sweepVars, encVars, inputVars, pairVars, clf, error, call>>

Next ==
    \/ Baselines
    \/ MetaFit
    \/ MetaPredict
    \/ ModeNotImplemented
    \/ Save

Spec == Init /\ [][Next]_vars

SpecMeta == InitMeta /\ [][Next]_vars

\* --------------------------------------- two executions on the same task
\* The tables T with other ground truth for dataset d: in every table the
\* cell of grid row r and column d is evaluated exactly for r in evaluated,
\* and every evaluated cell of the column holds another value than in T.
Retarget(T, d, evaluated) ==
    [k \in DOMAIN T |->
        [T[k] EXCEPT !.val =
            [r \in DOMAIN T[k].val |->
                [T[k].val[r] EXCEPT ![d] =
                    IF r > NumRows \/ r \in evaluated
                    THEN Val(k[1], k[2], r, d) + 5 ELSE NaN]]]]

\* one test task; the second execution reads tables that differ from the
\* first's in the target column only
InitPair ==
    /\ tables \in TableFamily
    /\ mode = "two-stage"
    /\ result_SOTA \in {<<t>> : t \in Tasks}
    /\ InitLoop
    /\ tables_other \in {Retarget(tables, result_SOTA[1].ds, ev) : ev \in SUBSET (1..NumRows)}
    /\ clf_other = NoClf
    /\ call_other = NoCall
    /\ NoSweep
    /\ NoLoader

\* meta(...).meta_fit() in both executions, lines 102-167
PairFit ==
    /\ pc = "baseline"
    /\ \E a \in {meta_fit(tables, Metric, Row.ds)} :
       \E b \in {meta_fit(tables_other, Metric, Row.ds)} :
          /\ clf' = [a EXCEPT !.test_la = Row.la]
          /\ clf_other' = [b EXCEPT !.test_la = Row.la]
          /\ pc' = IF a.err = "none" /\ b.err = "none" THEN "predict" ELSE "done"
    /\ UNCHANGED <<loaderVars, sweepVars, encVars, inputVars, tables_other, metric, i, test_dataset_previous,
                   meta_classifier_performance, error, call, call_other, saved, err>>

\* the record of a selector call
CallOf(self, ranking, r) ==
    [made |-> TRUE, self |-> self, ranking |-> ranking,
     err |-> r.err, ret |-> r.ret, sel |-> r.sel]

\* meta_predict() in both executions, lines 169-201.  The seed is set at line
\* 104, so the predictor is a function of what it was fitted on and what it is
\* asked: two equal meta objects give the same ranking, two different ones
\* any two rankings.
PairPredict ==
    /\ pc = "predict"
    /\ \E ra \in Rankings(Len(clf.components_df_index)) :
       \E rb \in Rankings(Len(clf_other.components_df_index)) :
          /\ clf = clf_other => ra = rb
          /\ call' = CallOf(clf, ra, meta_predict(tables, clf, ra))
          /\ call_other' = CallOf(clf_other, rb, meta_predict(tables_other, clf_other, rb))
    /\ pc' = "done"
    /\ UNCHANGED <<loaderVars, sweepVars, encVars, inputVars, tables_other, clf, clf_other, metric, i,
                   test_dataset_previous, meta_classifier_performance, error, saved, err>>

NextPair == PairFit \/ PairPredict

SpecPair == InitPair /\ [][NextPair]_vars

\* --------------------------------------------------- the harness sweep
\* model_dict.keys() of the pipeline built at test_SOTA.py line 250
\* (parallel = 'unsupervise'), cut to two models
ModelNames == <<"IForest", "DAGMM">>

\* where an exception is raised inside model_fit: nowhere, in the model's
\* constructor, in fit, in predict_score or in utils.metric
Faults == {"none", "init", "fit", "score", "metric"}

\* a cell of a result table before any write (DataFrame(data=None), line 206)
Empty == "nan"

\* the four result tables, lines 206-209
NewFrame ==
    [t \in {"AUCROC", "AUCPR", "time_fit", "time_inference"} |->
        [r \in 1..Len(experiment_params) |-> [m \in Range(ModelNames) |-> Empty]]]

\* model_fit with the except clause of lines 184-188 lost: the exception of
\* the second try block leaves the function
model_fit_no_except(f) ==
    LET self_clf == IF f = "init" THEN "class" ELSE "instance"
    IN IF self_clf = "class" \/ f \in {"fit", "score", "metric"}
       THEN [raised |-> TRUE, time_fit |-> "", time_inference |-> "", aucroc |-> "", aucpr |-> ""]
       ELSE [raised |-> FALSE, time_fit |-> "fit_s", time_inference |-> "inference_s",
             aucroc |-> "aucroc", aucpr |-> "aucpr"]

\* model_fit, test_SOTA.py lines 148-190.  A constructor that raises (lines
\* 149-158) leaves self.clf the class, whose fit then raises inside the second
\* try block; every exception of that block ends in lines 184-188.
model_fit(f) ==
    LET self_clf == IF f = "init" THEN "class" ELSE "instance"
    IN IF self_clf = "class" \/ f \in {"fit", "score", "metric"}
       THEN [raised |-> FALSE, time_fit |-> "None", time_inference |-> "None",
             aucroc |-> "nan", aucpr |-> "nan"]
       ELSE [raised |-> FALSE, time_fit |-> "fit_s", time_inference |-> "inference_s",
             aucroc |-> "aucroc", aucpr |-> "aucpr"]

\* lines 239-242: the cell of (row r, model m) in each of the four tables
StoreResult(frames, r, m, ret) ==
    [frames EXCEPT !["AUCROC"][r][m] = ret.aucroc,
                   !["AUCPR"][r][m] = ret.aucpr,
                   !["time_fit"][r][m] = ret.time_fit,
                   !["time_inference"][r][m] = ret.time_inference]

\* la of every parameter combination: 0 or a positive ratio
InitSweep ==
    /\ experiment_params \in [1..NumParams -> {0, 1}]
    /\ df = NewFrame
    /\ csv = <<>>
    /\ sweep_i = 0
    /\ model_idx = 0
    /\ sweep_pc = "params"
    /\ fault = "none"
    /\ fit_out = NoFit
    /\ tables = MkTables({}, 0, Regular)
    /\ mode = "two-stage"
    /\ result_SOTA = <<>>
    /\ enc_result = <<>>
    /\ enc_out = Pending
    /\ metric = 1
    /\ i = 0
    /\ pc = "done"
    /\ clf = NoClf
    /\ test_dataset_previous = "unbound"
    /\ meta_classifier_performance = <<>>
    /\ error = "none"
    /\ call = NoCall
    /\ saved = NoFile
    /\ err = "none"
    /\ NoPair
    /\ NoLoader

\* lines 211-229: the head of the loop over the parameter combinations; an
\* unsupervised sweep skips la # 0 and a generator that raises skips the
\* combination
NextParams ==
    /\ sweep_pc = "params"
    /\ IF sweep_i >= Len(experiment_params)
       THEN sweep_pc' = "done" /\ UNCHANGED <<sweep_i, model_idx>>
       ELSE IF experiment_params[sweep_i + 1] # 0
       THEN sweep_i' = sweep_i + 1 /\ UNCHANGED <<sweep_pc, model_idx>>
       ELSE \E generated \in BOOLEAN :
               IF generated
               THEN sweep_pc' = "models" /\ model_idx' = 1 /\ sweep_i' = sweep_i
               ELSE sweep_i' = sweep_i + 1 /\ UNCHANGED <<sweep_pc, model_idx>>
    /\ UNCHANGED <<loaderVars, experiment_params, df, csv, fault, fit_out, encVars, inputVars, pairVars,
                   runVars>>

\* lines 231-247: one model of the combination: model_fit, the four cells,
\* the four files
EvaluateModel ==
    /\ sweep_pc = "models"
    /\ \E f \in Faults : \E ret \in {model_fit(f)} :
          /\ fault' = f
          /\ fit_out' = ret
          /\ IF ret.raised
             THEN sweep_pc' = "aborted" /\ UNCHANGED <<df, csv, sweep_i, model_idx>>
             ELSE /\ df' = StoreResult(df, sweep_i + 1, ModelNames[model_idx], ret)
                  /\ csv' = df'
                  /\ IF model_idx < Len(ModelNames)
                     THEN model_idx' = model_idx + 1 /\ UNCHANGED <<sweep_i, sweep_pc>>
                     ELSE sweep_i' = sweep_i + 1 /\ sweep_pc' = "params" /\ model_idx' = 0
    /\ UNCHANGED <<loaderVars, experiment_params, encVars, inputVars, pairVars, runVars>>

NextSweep == NextParams \/ EvaluateModel

SpecSweep == InitSweep /\ [][NextSweep]_vars

\* ------------------------------------------------ the DataLoader of meta_fit
\* batch_size of line 156
batch_size == 512

\* shuffle=True: the order of an epoch, here one of a few rotations of the pool
ShuffleOffsets == {0, 1, 7}

Shuffled(n, off) == [k \in 1..n |-> ((k - 1 + off) % n) + 1]

\* DataLoader(..., batch_size=512, shuffle=True, drop_last=True), lines 155-156:
\* the batches of one pass over n examples taken in the given order
Batches(n, order) ==
    [b \in 1..(n \div batch_size) |->
        {order[k] : k \in ((b - 1) * batch_size + 1)..(b * batch_size)}]

InitLoader ==
    /\ pool_size \in 1..MaxPoolSize
    /\ epoch = 0
    /\ train_loader = <<>>
    /\ NoSweep
    /\ tables = MkTables({}, 0, Regular)
    /\ mode = "two-stage"
    /\ result_SOTA = <<>>
    /\ enc_result = <<>>
    /\ enc_out = Pending
    /\ metric = 1
    /\ i = 0
    /\ pc = "done"
    /\ clf = NoClf
    /\ test_dataset_previous = "unbound"
    /\ meta_classifier_performance = <<>>
    /\ error = "none"
    /\ call = NoCall
    /\ saved = NoFile
    /\ err = "none"
    /\ NoPair

\* one pass of fit() over train_loader, line 165; a pool of one example never
\* gets there (FitPool)
Epoch ==
    /\ pool_size > 1
    /\ epoch < MaxEpochs
    /\ \E off \in ShuffleOffsets :
          train_loader' = Batches(pool_size, Shuffled(pool_size, off))
    /\ epoch' = epoch + 1
    /\ UNCHANGED <<pool_size, sweepVars, encVars, inputVars, pairVars, runVars>>

NextLoader == Epoch

SpecLoader == InitLoader /\ [][NextLoader]_vars

\* ------------------------------------------------------------------- claims
\* the table and the column the selector call of the state looked its value up in
CallTable == ReadTable(tables, call.self.metric, call.self.test_la)

CallCell(r) == CallTable.val[r][call.self.test_dataset]

Returned == call.made /\ call.err = "none"

\* C1: every value the selector returns is the non-missing ground-truth cell
\* of the selected configuration for (target dataset, target count); it never
\* returns a missing value.
C1_LeakageGuarantee ==
    Returned =>
        /\ ~isnull(call.ret)
        /\ call.sel \in 1..Len(CallTable.rows)
        /\ call.ret = CallCell(call.sel)

\* C2: when some configuration of the target-count table has a non-missing
\* cell for the target dataset, the selector returns the cell of the first
\* configuration of the ranking whose cell is non-missing.
C2_FirstNonMissing ==
    (Returned /\ \E r \in 1..Len(CallTable.rows) : ~isnull(CallCell(r))) =>
        \E k \in 1..Len(call.ranking) :
            /\ call.ranking[k] \in 1..Len(CallTable.rows)
            /\ ~isnull(CallCell(call.ranking[k]))
            /\ call.ret = CallCell(call.ranking[k])
            /\ \A j \in 1..(k - 1) :
                 call.ranking[j] \in 1..Len(CallTable.rows) => isnull(CallCell(call.ranking[j]))


\* C4: no training example of the fitted object comes from its held-out
\* target dataset, for meta_fit and for meta_fit_end2end.
C4_HeldOutExcluded ==
    clf.bound => \A m \in 1..Len(clf.pool) : clf.pool[m].ds # clf.test_dataset

\* a fit succeeded on tables whose first count has an evaluated target cell
C4_Witness ==
    /\ clf.bound
    /\ Len(clf.pool) > 0
    /\ \E r \in 1..Len(ReadTable(tables, clf.metric, CandidateCounts[1]).rows) :
         ~isnull(ReadTable(tables, clf.metric, CandidateCounts[1]).val[r][clf.test_dataset])

\* the tables of the two executions agree outside the column of the target
SameButTarget ==
    \A k \in DOMAIN tables :
        /\ tables_other[k].rows = tables[k].rows
        /\ tables_other[k].cols = tables[k].cols
        /\ \A r \in DOMAIN tables[k].val : \A d \in Datasets \ {Row.ds} :
              tables_other[k].val[r][d] = tables[k].val[r][d]

\* C5: two executions of meta_fit and meta_predict on tables that differ only
\* in the target dataset's column build the same training pool and rank the
\* configurations the same way.
C5_RankingIgnoresTarget ==
    SameButTarget =>
        /\ clf.bound /\ clf_other.bound =>
              /\ clf.err = clf_other.err
              /\ clf.pool = clf_other.pool
              /\ clf.components_df_index = clf_other.components_df_index
        /\ call.made /\ call_other.made => call.ranking = call_other.ranking

\* both executions ranked, and the differing target column made them return
\* different candidates
C5_Witness ==
    /\ call.made /\ call_other.made
    /\ tables_other # tables
    /\ call.err = "none" /\ call_other.err = "none"
    /\ Len(clf.pool) > 1
    /\ call.sel # call_other.sel
    /\ ~isnull(call.ret) /\ ~isnull(call_other.ret)

\* C3: the Meta value of a row is computed with a predictor fitted with the
\* row's dataset held out, and looked up in the column of the row's dataset,
\* whatever happened to the rows before it.
C3_NoCrossDatasetReuse ==
    (mode \in Implemented /\ pc = "save" /\ error = "none") =>
        /\ clf.test_dataset = Row.ds
        /\ call.self.test_dataset = Row.ds

\* the counts whose tables the training-set builder of the mode reads
BuilderCounts == IF mode = "two-stage" THEN Counts ELSE {CandidateCounts[1]}

\* the builder runs at row j (0-based) of an implemented mode
BuilderRunsAt(j) ==
    mode \in Implemented /\ (j = 0 \/ result_SOTA[j + 1].ds # result_SOTA[j].ds)

ColumnAbsent(d) == \E la \in BuilderCounts : d \notin ReadTable(tables, Metric, la).cols

\* C6: when the held-out column is absent from a table the builder reads, the
\* run aborts: the row gets no recorded result and the loop does not go on.
C6_MissingColumnFatal ==
    \A j \in 0..(Len(result_SOTA) - 1) :
        (BuilderRunsAt(j) /\ ColumnAbsent(result_SOTA[j + 1].ds)) =>
            /\ ~(i = j /\ pc = "save")
            /\ ~(i > j \/ pc = "done")

\* C7 as stated: with an unknown mode run() ends with NotImplementedError, has
\* written no comparison table and has not gone on to a second row.
C7_UnknownModeRaisesNotImplemented ==
    mode \notin Implemented =>
        /\ pc # "done" /\ saved = NoFile /\ i = 0 /\ metric = 1
        /\ pc = "aborted" => err = "NotImplementedError"

\* C7 amended: with an unknown mode run() always aborts in its first row,
\* without writing a comparison table: with the KeyError of the baselines when
\* the target-count table lacks the row's dataset column, and with
\* NotImplementedError otherwise.
C7_UnknownModeAborts ==
    mode \notin Implemented =>
        /\ pc # "done" /\ saved = NoFile /\ i = 0 /\ metric = 1
        /\ pc # "aborted" => ENABLED Next
        /\ pc = "aborted" =>
             err = IF Row.ds \in ReadTable(tables, Metric, Row.la).cols
                   THEN "NotImplementedError" ELSE "KeyError"

\* run() with an unknown mode and at least two rows has aborted with
\* NotImplementedError
C7_Witness ==
    /\ mode \notin Implemented
    /\ Len(result_SOTA) >= 2
    /\ pc = "aborted"
    /\ err = "NotImplementedError"
    /\ meta_classifier_performance[1] = -1

\* C8: when fitting or predicting raises for row i, the row's Meta value
\* becomes -1 and no other Meta value changes; the comparison table is then
\* written with that -1 and the loop goes on to what follows row i.
C8_SentinelOnFailure ==
    [][/\ (mode \in Implemented /\ pc \in {"try", "predict"} /\ error' # "none") =>
            /\ pc' = "save"
            /\ i' = i
            /\ meta_classifier_performance' =
                   [meta_classifier_performance EXCEPT ![i + 1] = -1]
       /\ (mode \in Implemented /\ pc = "save" /\ error # "none") =>
            /\ meta_classifier_performance[i + 1] = -1
            /\ saved' = [metric |-> Metric, Meta |-> meta_classifier_performance]
            /\ pc' # "aborted"
            /\ IF i + 1 < Len(result_SOTA) THEN i' = i + 1 /\ pc' = "baseline"
               ELSE pc' = "done" \/ (metric' = metric + 1 /\ i' = 0 /\ pc' = "baseline")
      ]_vars

\* the failure of the second row is on file as -1 next to the value of the
\* first row, and the loop is at the third row
C8_Witness ==
    /\ mode \in Implemented
    /\ i = 2
    /\ saved.metric = Metric
    /\ saved.Meta[1] > 0
    /\ saved.Meta[2] = -1

\* the cells (count, row, column) meta_fit has to turn into examples for the
\* held-out dataset d: the non-missing cells of the other dataset columns
TrainingCells(T, mt, d) ==
    {x \in Counts \X (1..(NumRows + 1)) \X Datasets :
        /\ x[3] # d
        /\ x[3] \in ReadTable(T, mt, x[1]).cols
        /\ x[2] <= Len(ReadTable(T, mt, x[1]).rows)
        /\ ~isnull(ReadTable(T, mt, x[1]).val[x[2]][x[3]])}

\* the example of a cell: its count, its row's codes in the encoded table of
\* that count, and its value
CellExample(T, mt, x) ==
    Example(x[3], x[1], components_process(ReadTable(T, mt, x[1]).rows).index[x[2]],
            ReadTable(T, mt, x[1]).val[x[2]][x[3]])

\* C9: the pool of meta_fit holds exactly one example for every non-missing
\* cell of a non-target column, with the cell's count, the row's codes of the
\* count's own encoded table and the cell value, and nothing else.
C9_PoolIsNonMissingCells ==
    (mode = "two-stage" /\ clf.bound) =>
        LET cells == TrainingCells(tables, clf.metric, clf.test_dataset)
        IN /\ Len(clf.pool) = Cardinality(cells)
           /\ \A x \in cells : \E e \in {CellExample(tables, clf.metric, x)} :
                Cardinality({m \in 1..Len(clf.pool) : clf.pool[m] = e}) = 1
           /\ \A m \in 1..Len(clf.pool) : ~isnull(clf.pool[m].perf) /\ clf.pool[m].perf # 0

\* meta_fit succeeded on tables with a missing cell in a non-target column and
\* with counts whose encoded tables differ
C9_Witness ==
    /\ mode = "two-stage"
    /\ clf.bound
    /\ \E la \in Counts, r \in 1..NumRows, d \in Datasets \ {clf.test_dataset} :
         /\ d \in ReadTable(tables, clf.metric, la).cols
         /\ r <= Len(ReadTable(tables, clf.metric, la).rows)
         /\ isnull(ReadTable(tables, clf.metric, la).val[r][d])
    /\ \E a, b \in 1..Len(clf.pool) :
         clf.pool[a].la # clf.pool[b].la /\ clf.pool[a].comp # clf.pool[b].comp

\* the printed values of the non-None entries of slot k in the encoder's input
PrintedNonNull(k) ==
    {enc_result[n][k].v : n \in {m \in 1..Len(enc_result) : enc_result[m][k].t # "null"}}

SlotColumn(k) == [n \in 1..Len(enc_result) |-> enc_result[n][k]]

\* the codes the encoder gave slot k, which it retained
CodesOf(k) ==
    LET c == CHOOSE n \in 1..Len(enc_out.keys) : enc_out.keys[n] = k
    IN {enc_out.index[r][c] : r \in 1..Len(enc_out.index)}

\* C10: components_process drops a slot exactly when its non-None printed
\* values are at most one; relu,relu,relu is dropped, relu,tanh,relu is kept
\* and gets exactly two codes.
C10_DropRule ==
    enc_out.err = "none" =>
        /\ \A n \in 1..Len(Keys) :
             Keys[n] \notin Range(enc_out.keys) <=> Cardinality(PrintedNonNull(Keys[n])) <= 1
        /\ SlotColumn("act") = <<StrV("relu"), StrV("relu"), StrV("relu")>>
             => "act" \notin Range(enc_out.keys)
        /\ SlotColumn("act") = <<StrV("relu"), StrV("tanh"), StrV("relu")>>
             => "act" \in Range(enc_out.keys) /\ Cardinality(CodesOf("act")) = 2

\* the encoder returned for relu,tanh,relu next to a slot whose values print
\* alike or are None
C10_Witness ==
    /\ enc_out.err = "none"
    /\ SlotColumn("act") = <<StrV("relu"), StrV("tanh"), StrV("relu")>>
    /\ SlotColumn("depth") = <<IntV("1"), StrV("1"), Null>>
    /\ enc_out.keys = <<"act">>

\* C12: model_fit never raises; when something raises inside it, it returns
\* null durations and NaN metrics, the sweep writes them to the cell of the row
\* and the model in all four tables, writes the four files and goes on to the
\* next model of the combination.
C12_HarnessFailurePath ==
    [][sweep_pc = "models" =>
         /\ ~fit_out'.raised /\ sweep_pc' # "aborted"
         /\ fault' # "none" =>
               /\ fit_out'.time_fit = "None" /\ fit_out'.time_inference = "None"
               /\ fit_out'.aucroc = "nan" /\ fit_out'.aucpr = "nan"
               /\ df' = [df EXCEPT !["AUCROC"][sweep_i + 1][ModelNames[model_idx]] = "nan",
                                   !["AUCPR"][sweep_i + 1][ModelNames[model_idx]] = "nan",
                                   !["time_fit"][sweep_i + 1][ModelNames[model_idx]] = "None",
                                   !["time_inference"][sweep_i + 1][ModelNames[model_idx]] = "None"]
               /\ csv' = df'
               /\ model_idx < Len(ModelNames) =>
                     sweep_pc' = "models" /\ model_idx' = model_idx + 1 /\ sweep_i' = sweep_i
      ]_vars

\* the first model of a combination failed, the files hold its nulls, and the
\* second model of the same combination was evaluated after it
C12_Witness ==
    /\ \E r \in 1..Len(experiment_params) :
          /\ csv # <<>>
          /\ csv["time_fit"][r][ModelNames[1]] = "None"
          /\ csv["AUCROC"][r][ModelNames[1]] = "nan"
          /\ csv["AUCROC"][r][ModelNames[2]] = "aucroc"
    /\ csv = df

\* the examples that are in some mini-batch of the last pass
Trained == UNION {train_loader[b] : b \in 1..Len(train_loader)}

\* C13: in every epoch every example of the pool is in some mini-batch handed
\* to the training loop, whatever the size of the pool.
C13_FullPoolTrained ==
    epoch > 0 => Trained = 1..pool_size

\* the tables T with every table but that of the first candidate count made
\* unreadable for the builders (no rows, no columns)
FirstCountOnly(T) ==
    [k \in DOMAIN T |->
        IF k[2] = CandidateCounts[1] THEN T[k] ELSE [rows |-> <<>>, cols |-> {}, val |-> <<>>]]

\* C14: meta_fit_end2end processes the first candidate count only: its
\* examples are of count 5, the encoded table it leaves is that of the count-5
\* table, and the tables of counts 10, 25 and 50 have no part in what it
\* returns.
C14_EndToEndFirstCountOnly ==
    (mode = "end-to-end" /\ clf.bound) =>
        /\ \A m \in 1..Len(clf.pool) : clf.pool[m].la = 5
        /\ \E enc \in {components_process(ReadTable(tables, clf.metric, 5).rows)} :
              enc.err = "none" /\ clf.components_df_index = enc.index
        /\ \E alone \in {meta_fit_end2end(FirstCountOnly(tables), clf.metric, clf.test_dataset)} :
              /\ alone.err = "none"
              /\ alone.pool = clf.pool
              /\ alone.components_df_index = clf.components_df_index
              /\ alone.n_per_col = clf.n_per_col

\* meta_fit_end2end succeeded although the count-10 table has no column of the
\* target dataset
C14_Witness ==
    /\ mode = "end-to-end"
    /\ clf.bound
    /\ Len(clf.pool) > 1
    /\ clf.test_dataset \notin ReadTable(tables, clf.metric, 10).cols

\* the count whose table the encoded table of the fitted object comes from:
\* the last one its builder processed
LastCountFitted(md) == IF md = "two-stage" THEN 50 ELSE 5

\* C15: at inference there is one prediction input per configuration row of
\* the target-count table, and position k of the inputs is the configuration of
\* row k of that table.
C15_CandidateRowsMatch ==
    Returned =>
        \E fitted \in {ReadTable(tables, call.self.metric, LastCountFitted(mode))} :
            /\ Len(call.self.components_df_index) = Len(CallTable.rows)
            /\ \A k \in 1..Len(CallTable.rows) :
                  k <= Len(fitted.rows) /\ fitted.rows[k] = CallTable.rows[k]

\* meta_predict got as far as calling the predictor (line 189 raises before
\* that when there is a single configuration row)
PassedToPredictor ==
    mode = "two-stage" /\ call.made /\ Len(call.self.components_df_index) # 1

\* C16: every code of the encoded table that meta_predict passes to the
\* predictor is below the slot cardinality the predictor was built with in
\* meta_fit.
C16_EmbeddingIndicesInRange ==
    PassedToPredictor =>
        \A r \in 1..Len(call.self.components_df_index) :
            \A c \in 1..Len(call.self.components_df_index[r]) :
                /\ c <= Len(call.self.n_per_col)
                /\ call.self.components_df_index[r][c] < call.self.n_per_col[c]

\* the value of slot k in input row n, None counted as the value 'None'
SlotValue(n, k) == IF enc_result[n][k].t = "null" THEN StrV("None") ELSE enc_result[n][k]

\* C11: the encoded table has the rows of the input and one column per
\* surviving slot; the codes of a column are exactly 0..k-1 for the k distinct
\* values of the slot, and two rows share a code exactly when they share the
\* value.
C11_EncodedShapeAndRange ==
    enc_out.err = "none" =>
        /\ Len(enc_out.index) = Len(enc_result)
        /\ Len(enc_out.keys) =
              Cardinality({k \in Range(Keys) : Cardinality(PrintedNonNull(k)) > 1})
        /\ \A r \in 1..Len(enc_out.index) :
              /\ Len(enc_out.index[r]) = Len(enc_out.keys)
              /\ \A c \in 1..Len(enc_out.keys) :
                    /\ enc_out.index[r][c] \in
                          0..(Cardinality({SlotValue(n, enc_out.keys[c]) :
                                             n \in 1..Len(enc_result)}) - 1)
                    /\ \A q \in 1..Len(enc_out.index) :
                          enc_out.index[r][c] = enc_out.index[q][c]
                             <=> SlotValue(r, enc_out.keys[c]) = SlotValue(q, enc_out.keys[c])
        /\ \A c \in 1..Len(enc_out.keys) :
              Cardinality({enc_out.index[r][c] : r \in 1..Len(enc_out.index)}) =
                 Cardinality({SlotValue(n, enc_out.keys[c]) : n \in 1..Len(enc_result)})

\* the encoder returned two columns for three rows, each with a None next to
\* two different strings
C11_Witness ==
    /\ enc_out.err = "none"
    /\ SlotColumn("act") = <<StrV("tanh"), Null, StrV("relu")>>
    /\ SlotColumn("depth") = <<StrV("2"), StrV("1"), Null>>
    /\ enc_out.keys = <<"act", "depth">>
    /\ enc_out.index = <<<<2, 1>>, <<0, 0>>, <<1, 2>>>>

\* ------------------------------------------------------- encoder on its own
InitEnc ==
    /\ enc_result \in SeqsUpTo(Configs, MaxEncRows)
    /\ enc_out = Pending
    /\ tables = MkTables({}, 0, Regular)
    /\ mode = "two-stage"
    /\ result_SOTA = <<>>
    /\ metric = 1
    /\ i = 0
    /\ pc = "done"
    /\ clf = NoClf
    /\ test_dataset_previous = "unbound"
    /\ meta_classifier_performance = <<>>
    /\ error = "none"
    /\ call = NoCall
    /\ saved = NoFile
    /\ err = "none"
    /\ NoPair
    /\ NoSweep
    /\ NoLoader

EncoderCall ==
    /\ enc_out = Pending
    /\ enc_out' = components_process(enc_result)
    /\ UNCHANGED <<loaderVars, sweepVars, enc_result, inputVars, pairVars, runVars>>

NextEnc == EncoderCall

SpecEnc == InitEnc /\ [][NextEnc]_vars

====
